---- MODULE Spec2Model ----
(***************************************************************************)
(* Signal indexing and matching engine of python-threatexchange:          *)
(* hash comparators (signal_type/*.py), the exact-match and linear-scan   *)
(* indices (signal_type/signal_base.py, signal_type/raw_text.py).         *)
(*                                                                         *)
(* A hash (a Python str) is a sequence of one-character strings.          *)
(***************************************************************************)
EXTENDS Integers, Sequences, FiniteSets, TLC

VARIABLES
    idx,    \* the index object: [cls |-> class name, state |-> self.state]
    fout,   \* the bytes last written by serialize (<<>> before any write)
    added,  \* history: every entry handed to the base add since construction/deserialization
    call,   \* the last index call and its return value
    cmp,    \* one compare_hash call: its inputs and its result
    pending,\* an add call in progress on idx: its vals and how many are in
    files,  \* the index directory of CliIndexStore: per signal type, its file
    indice_dir, \* CliIndexStore.dir, the path of the index directory
    fetch   \* a FetchCommand and the position of its execute call

vars == <<idx, fout, added, call, cmp, pending, files, indice_dir, fetch>>

----------------------------------------------------------------------------
(* Bounds of the model *)

\* length of the reference text: floor(TextLen * 0.05) must be >= 1
TextLen == 20
\* most entries an index holds
MaxEntries == 2
\* most entries one add call brings
MaxBatch == 2
\* most fetchers of the settings, and most collaborations of one fetcher
MaxFetchers == 2
MaxCollabs == 2

----------------------------------------------------------------------------
(* Small helpers *)

Abs(n) == IF n < 0 THEN -n ELSE n

Min2(a, b) == IF a <= b THEN a ELSE b

Rep(c, n) == [i \in 1..n |-> c]

\* sum of f over the index set S, by value: each value of f times the number
\* of indices that take it
RECURSIVE SumValues(_, _, _)
SumValues(S, f, vals) ==
    IF vals = {} THEN 0
    ELSE LET v == CHOOSE x \in vals : TRUE
         IN  v * Cardinality({i \in S : f[i] = v}) + SumValues(S, f, vals \ {v})

SumOver(S, f) == SumValues(S, f, {f[i] : i \in S})

----------------------------------------------------------------------------
(* HashComparisonResult  (signal_base.py:17-35) *)

HashComparisonResult(match, distance) == [match |-> match, distance |-> distance]

\* from_match(dist = 0)
HashComparisonResult_from_match == HashComparisonResult(TRUE, 0)

\* from_no_match(dist = 1)
HashComparisonResult_from_no_match == HashComparisonResult(FALSE, 1)

Mut_from_dist(dist, threshold) == HashComparisonResult(threshold <= dist, dist)

\* from_dist(dist, threshold): cls(dist <= threshold, dist)
HashComparisonResult_from_dist(dist, threshold) ==
    HashComparisonResult(dist <= threshold, dist)

\* from_bool(matches): cls(matches, int(matches)); int(True) = 1, int(False) = 0
HashComparisonResult_from_bool(matches) ==
    HashComparisonResult(matches, IF matches THEN 1 ELSE 0)

----------------------------------------------------------------------------
(* SimpleSignalType.compare_hash  (signal_base.py:176-178), inherited by   *)
(* URLSignal and UrlMD5Signal                                              *)

SimpleSignalType_compare_hash(hash1, hash2) ==
    HashComparisonResult_from_bool(hash1 = hash2)

----------------------------------------------------------------------------
(* RawTextSignal.compare_hash  (raw_text.py:41-52) *)

\* Levenshtein.distance(s, t): unit-cost insert/delete/substitute, computed
\* row by row.  A row holds D[i][0..Len(t)] at positions 1..Len(t)+1.
\* LevNextRow extends the row for s[1..i-1] to the row for s[1..i]:
\* D[i][j] = min(D[i-1][j] + 1, D[i-1][j-1] + cost, D[i][j-1] + 1), the last
\* term unrolled into a minimum over the columns to the left.
MinSet(S) == CHOOSE x \in S : \A y \in S : x <= y

\* SubSeq makes the row an explicit tuple, each entry computed once
LevNextRow(prev, c, t) ==
    LET n == Len(t)
        cand == SubSeq([k \in 1..(n + 1) |->
                           IF k = 1 THEN prev[1] + 1
                           ELSE Min2(prev[k] + 1,
                                     prev[k - 1] + (IF c = t[k - 1] THEN 0 ELSE 1))],
                       1, n + 1)
    IN  SubSeq([j \in 1..(n + 1) |-> MinSet({cand[k] + (j - k) : k \in 1..j})],
               1, n + 1)

\* the row after s[lo..hi], starting from the row before s[lo]; the range is
\* halved to keep the evaluation shallow, and the first half is finished
\* before the second starts
RECURSIVE LevRows(_, _, _, _, _)
LevRows(s, t, lo, hi, row) ==
    IF lo > hi THEN row
    ELSE IF lo = hi THEN LevNextRow(row, s[lo], t)
    ELSE LET mid == (lo + hi) \div 2
             half == LevRows(s, t, lo, mid, row)
         IN  IF Len(half) = Len(row) THEN LevRows(s, t, mid + 1, hi, half) ELSE half

Levenshtein_distance(s, t) ==
    LevRows(s, t, 1, Len(s),
            SubSeq([j \in 1..(Len(t) + 1) |-> j - 1], 1, Len(t) + 1))[Len(t) + 1]

\* math.floor(len(hash1) * 0.05); for every length below 200000 the double
\* product floors to the same value as the exact one
match_threshold(hash1) == (Len(hash1) * 5) \div 100

Mut_RawText_compare_hash(hash1, hash2) ==
    LET ldiff == Abs(Len(hash1) - Len(hash2))
    IN  IF ldiff >= match_threshold(hash1)
        THEN HashComparisonResult_from_no_match
        ELSE LET distance == Levenshtein_distance(hash1, hash2)
             IN  HashComparisonResult(distance < match_threshold(hash1), distance)

RawTextSignal_compare_hash(hash1, hash2) ==
    LET ldiff == Abs(Len(hash1) - Len(hash2))
    IN  IF ldiff > match_threshold(hash1)
        THEN HashComparisonResult_from_no_match
        ELSE LET distance == Levenshtein_distance(hash1, hash2)
             IN  HashComparisonResult(distance <= match_threshold(hash1), distance)

----------------------------------------------------------------------------
(* PdqSignal.compare_hash  (pdq.py:46-51) *)

PDQ_CONFIDENT_MATCH_THRESHOLD == 31

\* a PDQ hash is 256 bits, written as 64 hex digits
BITS_IN_PDQ == 256

HexDigits ==
    <<"0", "1", "2", "3", "4", "5", "6", "7",
      "8", "9", "a", "b", "c", "d", "e", "f">>

HexVal(c) == (CHOOSE i \in 1..16 : HexDigits[i] = c) - 1

\* the four bits of one hex digit, most significant first
HexDigitBits(c) ==
    LET v == HexVal(c)
    IN  <<(v \div 8) % 2, (v \div 4) % 2, (v \div 2) % 2, v % 2>>

\* hex string -> bit string, four bits per digit
hex_to_binary_str(h) ==
    [i \in 1..(4 * Len(h)) |-> HexDigitBits(h[((i - 1) \div 4) + 1])[((i - 1) % 4) + 1]]

\* threatexchange.hashing.pdq_utils.simple_distance: Hamming distance over
\* the hashes' bit representation
simple_distance(hash1, hash2) ==
    LET b1 == hex_to_binary_str(hash1)
        b2 == hex_to_binary_str(hash2)
    IN  Cardinality({i \in 1..BITS_IN_PDQ : b1[i] # b2[i]})

PdqSignal_compare_hash(hash1, hash2) ==
    HashComparisonResult_from_dist(simple_distance(hash1, hash2),
                                   PDQ_CONFIDENT_MATCH_THRESHOLD)

----------------------------------------------------------------------------
(* TLSHSignal.compare_hash  (tlsh_pdf.py:69-74) *)

TLSH_CONFIDENT_MATCH_THRESHOLD == 30

EXPECT_TLSH_HASH_LENGTH == 72

\* distance on a ring of R values
TlshModDiff(x, y, R) == Min2(Abs(x - y), R - Abs(x - y))

\* a Q ratio contributes its ring distance, amplified beyond 1
TlshQDiff(x, y) ==
    LET d == TlshModDiff(x, y, 16)
    IN  IF d <= 1 THEN d ELSE (d - 1) * 12

\* two 2-bit buckets: |x - y|, and 6 when they are at opposite ends
TlshBucketDiff(x, y) == IF Abs(x - y) = 3 THEN 6 ELSE Abs(x - y)

\* one hex digit of the body holds two buckets
TlshDigitDiff(c, d) ==
    TlshBucketDiff(HexVal(c) \div 4, HexVal(d) \div 4)
        + TlshBucketDiff(HexVal(c) % 4, HexVal(d) % 4)

\* tlsh.diffxlen(hash1, hash2) of the py-tlsh library on "T1" + 70 hex
\* digits: 2 digits checksum, 2 digits length (left out by diffxlen),
\* 2 digits Q ratios, 64 digits body
tlsh_diffxlen(hash1, hash2) ==
    (IF SubSeq(hash1, 3, 4) # SubSeq(hash2, 3, 4) THEN 1 ELSE 0)
        + TlshQDiff(HexVal(hash1[7]), HexVal(hash2[7]))
        + TlshQDiff(HexVal(hash1[8]), HexVal(hash2[8]))
        + SumOver(9..EXPECT_TLSH_HASH_LENGTH,
                  [i \in 9..EXPECT_TLSH_HASH_LENGTH |-> TlshDigitDiff(hash1[i], hash2[i])])

TLSHSignal_compare_hash(hash1, hash2) ==
    HashComparisonResult_from_dist(tlsh_diffxlen(hash1, hash2),
                                   TLSH_CONFIDENT_MATCH_THRESHOLD)

----------------------------------------------------------------------------
(* The signal types and the hashes the model compares *)

ExactTypes == {"URLSignal", "UrlMD5Signal"}
BitDistanceTypes == {"PdqSignal", "TLSHSignal"}
FuzzyTypes == BitDistanceTypes \cup {"RawTextSignal"}
SignalTypes == ExactTypes \cup FuzzyTypes

\* cls.compare_hash, resolved through the class hierarchy
compare_hash(signal_type, hash1, hash2) ==
    CASE signal_type \in ExactTypes -> SimpleSignalType_compare_hash(hash1, hash2)
      [] signal_type = "RawTextSignal" -> RawTextSignal_compare_hash(hash1, hash2)
      [] signal_type = "PdqSignal" -> PdqSignal_compare_hash(hash1, hash2)
      [] signal_type = "TLSHSignal" -> TLSHSignal_compare_hash(hash1, hash2)

\* the per-type threshold of a fuzzy comparator
threshold_of(signal_type, hash1) ==
    CASE signal_type = "RawTextSignal" -> match_threshold(hash1)
      [] signal_type = "PdqSignal" -> PDQ_CONFIDENT_MATCH_THRESHOLD
      [] signal_type = "TLSHSignal" -> TLSH_CONFIDENT_MATCH_THRESHOLD

\* texts: a reference text, one and two substitutions, one character
\* shorter, one and two characters longer, and a few short strings
TextA == Rep("a", TextLen)
TextSub1 == [TextA EXCEPT ![1] = "b"]
TextSub2 == [TextA EXCEPT ![1] = "b", ![2] = "b"]
TextShort == Rep("a", TextLen - 1)
TextLong1 == Rep("a", TextLen + 1)
TextLong2 == Rep("a", TextLen + 2)

TextHashes ==
    {TextA, TextSub1, TextSub2, TextShort, TextLong1, TextLong2,
     <<>>, <<"a">>, <<"b">>, <<"a", "b">>}

\* PDQ hashes: n leading digits "f" and one digit d, the rest "0"
PdqHash(n, d) ==
    [i \in 1..(BITS_IN_PDQ \div 4) |->
        IF i <= n THEN "f" ELSE IF i = n + 1 THEN d ELSE "0"]

\* 0, 1, 4, 31, 32 and 256 bits set
PdqHashes ==
    {PdqHash(0, "0"), PdqHash(0, "1"), PdqHash(1, "0"),
     PdqHash(7, "7"), PdqHash(8, "0"), PdqHash(BITS_IN_PDQ \div 4, "0")}

\* TLSH hashes: checksum digit c, Q digit q, n body digits "3", the rest "0"
TlshHash(c, q, n) ==
    [i \in 1..EXPECT_TLSH_HASH_LENGTH |->
        CASE i = 1 -> "T"
          [] i = 2 -> "1"
          [] i = 4 -> c
          [] i = 7 -> q
          [] i > 8 /\ i <= 8 + n -> "3"
          [] OTHER -> "0"]

TlshHashes ==
    {TlshHash("0", "0", 0), TlshHash("1", "0", 0), TlshHash("0", "1", 0),
     TlshHash("0", "3", 0), TlshHash("0", "0", 5), TlshHash("0", "0", 6),
     TlshHash("1", "1", 4)}

HashesOf(signal_type) ==
    CASE signal_type \in ExactTypes -> TextHashes
      [] signal_type = "RawTextSignal" -> TextHashes
      [] signal_type = "PdqSignal" -> PdqHashes
      [] signal_type = "TLSHSignal" -> TlshHashes

----------------------------------------------------------------------------
(* common.normalize_string: case-folding and whitespace collapsing *)

Lower(c) == CASE c = "A" -> "a" [] c = "B" -> "b" [] c = "T" -> "t" [] OTHER -> c

normalize_string(s) ==
    LET keep == SelectSeq([i \in 1..Len(s) |-> i],
                          LAMBDA i : ~(s[i] = " " /\ i > 1 /\ s[i - 1] = " "))
    IN  SubSeq([j \in 1..Len(keep) |-> Lower(s[keep[j]])], 1, Len(keep))

----------------------------------------------------------------------------
(* The hashes and payloads the model's index calls use *)

Payloads == {"p1", "p2"}

TextUpper == [TextA EXCEPT ![1] = "A", ![2] = "A"]

\* hashes handed to add, and hashes queried
IndexHashes == {TextA, TextSub1, TextUpper}
QueryHashes == IndexHashes \cup {TextShort}

\* the first example text of RawTextSignal.get_examples, 43 characters, its
\* normalized form, and texts 2 and 3 substitutions away from that
FoxText ==
    <<"T", "h", "e", " ", "q", "u", "i", "c", "k", " ", "b", "r",
      "o", "w", "n", " ", "f", "o", "x", " ", "j", "u", "m", "p",
      "s", " ", "o", "v", "e", "r", " ", "t", "h", "e", " ", "l",
      "a", "z", "y", " ", "d", "o", "g">>

FoxNormalized == normalize_string(FoxText)
FoxEdit2 == [FoxNormalized EXCEPT ![5] = "x", ![6] = "x"]
FoxEdit3 == [FoxNormalized EXCEPT ![5] = "x", ![6] = "x", ![7] = "x"]

ExampleTexts == {FoxText, FoxNormalized, FoxEdit2, FoxEdit3}

----------------------------------------------------------------------------
(* index.IndexMatch(distance, metadata) *)

IndexMatch(distance, metadata) == [distance |-> distance, metadata |-> metadata]

----------------------------------------------------------------------------
(* A Python dict: the <<key, value>> items in insertion order, keys unique *)

dict_has(d, k) == \E i \in DOMAIN d : d[i][1] = k

dict_item(d, k) == d[CHOOSE i \in DOMAIN d : d[i][1] = k][2]

\* d[k] = v: replaces the value in place, or appends a new key
dict_set(d, k, v) ==
    IF dict_has(d, k)
    THEN [i \in DOMAIN d |-> IF d[i][1] = k THEN <<k, v>> ELSE d[i]]
    ELSE Append(d, <<k, v>>)

----------------------------------------------------------------------------
(* TrivialSignalTypeIndex  (signal_base.py:181-211) *)

\* __init__: self.state = {}
TrivialSignalTypeIndex_init == [cls |-> "TrivialSignalTypeIndex", state |-> <<>>]

Mut_Exact_query(state, hash) ==
    IF dict_has(state, hash)
    THEN [i \in 1..Len(dict_item(state, hash)) |-> IndexMatch(0, dict_item(state, hash)[i])]
    ELSE <<"KeyError">>

\* query: [IndexMatch(0, meta) for meta in self.state.get(hash, [])]
TrivialSignalTypeIndex_query(state, hash) ==
    LET metas == IF dict_has(state, hash) THEN dict_item(state, hash) ELSE <<>>
    IN  [i \in 1..Len(metas) |-> IndexMatch(0, metas[i])]

Mut_Exact_query_state(state, hash) ==
    IF dict_has(state, hash) THEN state ELSE dict_set(state, hash, <<>>)

\* self.state after query: state.get(hash, []) reads the dict and stores nothing
TrivialSignalTypeIndex_query_state(state, hash) == state

RECURSIVE Mut_Exact_add(_, _)
Mut_Exact_add(state, vals) ==
    IF vals = <<>> THEN state
    ELSE Mut_Exact_add(dict_set(state, Head(vals)[1], <<Head(vals)[2]>>), Tail(vals))

\* add: for k, val in vals: l = self.state.get(k); a missing or empty list
\* is replaced by a new one stored under k; val is appended to l
RECURSIVE TrivialSignalTypeIndex_add(_, _)
TrivialSignalTypeIndex_add(state, vals) ==
    IF vals = <<>> THEN state
    ELSE LET k == Head(vals)[1]
             val == Head(vals)[2]
             not_l == ~dict_has(state, k) \/ dict_item(state, k) = <<>>
             l == IF not_l THEN <<>> ELSE dict_item(state, k)
         IN  TrivialSignalTypeIndex_add(dict_set(state, k, Append(l, val)), Tail(vals))

----------------------------------------------------------------------------
(* TrivialLinearSearchIndex  (signal_base.py:214-249) and its subclass     *)
(* LevenshteinLinearSearch  (raw_text.py:74-80)                            *)

\* __init__: self.state = []
LevenshteinLinearSearch_init == [cls |-> "LevenshteinLinearSearch", state |-> <<>>]

\* the class attribute _SIGNAL_TYPE
SIGNAL_TYPE(cls) == CASE cls = "LevenshteinLinearSearch" -> "RawTextSignal"

\* self._SIGNAL_TYPE.compare_hash(hash, query_hash); the comparisons of the
\* hashes the model stores and queries are evaluated once and looked up
CompareMemo ==
    [p \in {"RawTextSignal"} \X {normalize_string(h) : h \in IndexHashes} \X QueryHashes |->
        compare_hash(p[1], p[2], p[3])]
    @@ [p \in {"RawTextSignal"} \X {normalize_string(h) : h \in ExampleTexts} \X ExampleTexts |->
        compare_hash(p[1], p[2], p[3])]
    @@ <<>>

SIGNAL_TYPE_compare_hash(cls, hash, query_hash) ==
    IF <<SIGNAL_TYPE(cls), hash, query_hash>> \in DOMAIN CompareMemo
    THEN CompareMemo[<<SIGNAL_TYPE(cls), hash, query_hash>>]
    ELSE compare_hash(SIGNAL_TYPE(cls), hash, query_hash)

RECURSIVE Mut_Linear_query(_, _, _)
Mut_Linear_query(cls, state, query_hash) ==
    IF state = <<>> THEN <<>>
    ELSE LET res == SIGNAL_TYPE_compare_hash(cls, Head(state)[1], query_hash)
         IN  IF res.match THEN <<IndexMatch(res.distance, Head(state)[2])>>
             ELSE Mut_Linear_query(cls, Tail(state), query_hash)

\* query: for hash, payload in self.state: res = compare_hash(hash, query_hash);
\* a match appends IndexMatch(res.distance, payload)
RECURSIVE TrivialLinearSearchIndex_query(_, _, _)
TrivialLinearSearchIndex_query(cls, state, query_hash) ==
    IF state = <<>> THEN <<>>
    ELSE LET res == SIGNAL_TYPE_compare_hash(cls, Head(state)[1], query_hash)
             rest == TrivialLinearSearchIndex_query(cls, Tail(state), query_hash)
         IN  IF res.match THEN <<IndexMatch(res.distance, Head(state)[2])>> \o rest
             ELSE rest

Mut_Linear_add_replace(state, vals) == vals

Mut_Linear_add(state, vals) ==
    state \o SelectSeq(vals, LAMBDA e : \A n \in DOMAIN state : state[n] # e)

\* add: self.state.extend(vals)
TrivialLinearSearchIndex_add(state, vals) == state \o vals

\* self.state after query: the loop reads self.state and appends to a local list
TrivialLinearSearchIndex_query_state(state, hash) == state

\* LevenshteinLinearSearch.add hands (normalize_string(s), v) for s, v in vals
\* to the base add
LevenshteinLinearSearch_normalized(vals) ==
    [i \in 1..Len(vals) |-> <<normalize_string(vals[i][1]), vals[i][2]>>]

----------------------------------------------------------------------------
(* Dispatch on the class of the index object *)

IndexClasses == {"TrivialSignalTypeIndex", "LevenshteinLinearSearch"}

\* what the class's add hands to the base add of signal_base.py
base_add_vals(cls, vals) ==
    IF cls = "LevenshteinLinearSearch" THEN LevenshteinLinearSearch_normalized(vals)
    ELSE vals

index_add(i, vals) ==
    [cls |-> i.cls,
     state |-> IF i.cls = "TrivialSignalTypeIndex"
               THEN TrivialSignalTypeIndex_add(i.state, vals)
               ELSE TrivialLinearSearchIndex_add(i.state, base_add_vals(i.cls, vals))]

index_query(i, hash) ==
    IF i.cls = "TrivialSignalTypeIndex"
    THEN TrivialSignalTypeIndex_query(i.state, hash)
    ELSE TrivialLinearSearchIndex_query(i.cls, i.state, hash)

\* the index object after query returned
index_after_query(i, hash) ==
    [cls |-> i.cls,
     state |-> IF i.cls = "TrivialSignalTypeIndex"
               THEN TrivialSignalTypeIndex_query_state(i.state, hash)
               ELSE TrivialLinearSearchIndex_query_state(i.state, hash)]

\* cls(): the constructor of the class
index_init(cls) ==
    IF cls = "TrivialSignalTypeIndex" THEN TrivialSignalTypeIndex_init
    ELSE LevenshteinLinearSearch_init

\* TrivialSignalTypeIndex.build: ret = cls(); ret.add(vals=vals); return ret
TrivialSignalTypeIndex_build(cls, vals) == index_add(index_init(cls), vals)

Mut_Linear_build(cls, vals) ==
    [cls |-> cls, state |-> TrivialLinearSearchIndex_add(index_init(cls).state, vals)]

\* TrivialLinearSearchIndex.build: ret = cls(); ret.add(vals=vals); return ret
\* (add is the add of cls, so LevenshteinLinearSearch.build normalizes)
TrivialLinearSearchIndex_build(cls, vals) == index_add(index_init(cls), vals)

index_build(cls, vals) ==
    IF cls = "TrivialSignalTypeIndex" THEN TrivialSignalTypeIndex_build(cls, vals)
    ELSE TrivialLinearSearchIndex_build(cls, vals)

----------------------------------------------------------------------------
(* pickle.dump(self, fout) / pickle.load(fin)  (signal_base.py:206-211,    *)
(* 244-249).  The pickle names the class and holds the instance __dict__,  *)
(* here the one attribute state; class attributes are not written.         *)
(* Written form: <<class name, "dict" or "list", number of items>> and the *)
(* items: for a dict each key, the length of its list and the list's       *)
(* elements; for a list the two members of each tuple.                     *)

RECURSIVE pickle_dict_items(_)
pickle_dict_items(d) ==
    IF d = <<>> THEN <<>>
    ELSE <<Head(d)[1], Len(Head(d)[2])>> \o Head(d)[2] \o pickle_dict_items(Tail(d))

pickle_list_items(l) ==
    [n \in 1..(2 * Len(l)) |-> IF n % 2 = 1 THEN l[(n + 1) \div 2][1] ELSE l[n \div 2][2]]

Mut_pickle_dump(obj) ==
    IF obj.cls = "TrivialSignalTypeIndex"
    THEN <<obj.cls, "dict", Len(obj.state)>>
             \o pickle_dict_items([n \in 1..Len(obj.state) |->
                                      <<obj.state[n][1], <<obj.state[n][2][1]>>>>])
    ELSE <<obj.cls, "list", Len(obj.state)>>
             \o pickle_list_items([n \in 1..Len(obj.state) |->
                                      <<obj.state[n][1], obj.state[1][2]>>])

pickle_dump(obj) ==
    IF obj.cls = "TrivialSignalTypeIndex"
    THEN <<obj.cls, "dict", Len(obj.state)>> \o pickle_dict_items(obj.state)
    ELSE <<obj.cls, "list", Len(obj.state)>> \o pickle_list_items(obj.state)

\* reads nkeys dict items from position pos of the written form
RECURSIVE unpickle_dict_items(_, _, _)
unpickle_dict_items(bytes, pos, nkeys) ==
    IF nkeys = 0 THEN <<>>
    ELSE LET k == bytes[pos]
             n == bytes[pos + 1]
         IN  <<<<k, SubSeq(bytes, pos + 2, pos + 1 + n)>>>>
                 \o unpickle_dict_items(bytes, pos + 2 + n, nkeys - 1)

unpickle_list_items(bytes, pos, n) ==
    [m \in 1..n |-> <<bytes[pos + 2 * (m - 1)], bytes[pos + 2 * (m - 1) + 1]>>]

\* the object is rebuilt as an instance of the class the pickle names
pickle_load(bytes) ==
    [cls |-> bytes[1],
     state |-> IF bytes[2] = "dict"
               THEN unpickle_dict_items(bytes, 4, bytes[3])
               ELSE unpickle_list_items(bytes, 4, bytes[3])]

\* cls.deserialize(fin): return pickle.load(fin); cls is not looked at
index_deserialize(cls, bytes) == pickle_load(bytes)

----------------------------------------------------------------------------
(* The index under a sequence of add, query, serialize and deserialize     *)
(* calls                                                                   *)

IndexEntries == IndexHashes \X Payloads

\* the batches one add call can bring: sequences of at most MaxBatch entries
Batches == UNION {[1..n -> IndexEntries] : n \in 0..MaxBatch}

\* the (hash, payload) entries an index holds, in insertion order (for the
\* dict: key by key)
RECURSIVE dict_entries(_)
dict_entries(d) ==
    IF d = <<>> THEN <<>>
    ELSE [n \in 1..Len(Head(d)[2]) |-> <<Head(d)[1], Head(d)[2][n]>>]
             \o dict_entries(Tail(d))

Entries(i) ==
    IF i.cls = "TrivialSignalTypeIndex" THEN dict_entries(i.state) ELSE i.state

NoCompare == [pc |-> "none"]
NoIndex == [cls |-> "none", state |-> <<>>]
NoCall == [op |-> "none"]
NoAdd == [active |-> FALSE]

\* the signal types whose indices CliIndexStore keeps, and an empty directory
StoreTypes == {"URLSignal", "RawTextSignal"}
NoFile == [exists |-> FALSE]
NoFiles == [st \in StoreTypes |-> NoFile]

\* the index directory the CLI uses, an absolute path, and no fetch command
CliIndexDir == <<"/", "d">>
NoFetch == [pc |-> "none"]

\* the index is constructed empty (cls()) or from entries (cls.build(vals))
InitIndex ==
    /\ \E cls \in IndexClasses :
          \/ /\ idx = index_init(cls)
             /\ added = <<>>
             /\ call = NoCall
          \/ \E vals \in Batches :
                /\ Len(vals) <= MaxEntries
                /\ idx = index_build(cls, vals)
                /\ added = base_add_vals(cls, vals)
                /\ call = [op |-> "build", cls |-> cls, vals |-> vals]
    /\ fout = <<>>
    /\ cmp = NoCompare
    /\ pending = NoAdd
    /\ files = NoFiles
    /\ fetch = NoFetch

Init == InitIndex /\ indice_dir = CliIndexDir

\* idx.add(vals)
Add(vals) ==
    /\ Len(Entries(idx)) + Len(vals) <= MaxEntries
    /\ idx' = index_add(idx, vals)
    /\ added' = added \o base_add_vals(idx.cls, vals)
    /\ call' = [op |-> "add", n |-> Len(vals)]
    /\ UNCHANGED <<fout, cmp, pending, files, indice_dir, fetch>>

\* idx.query(hash)
Query(hash) ==
    /\ call' = [op |-> "query", hash |-> hash, ret |-> index_query(idx, hash)]
    /\ idx' = index_after_query(idx, hash)
    /\ UNCHANGED <<fout, added, cmp, pending, files, indice_dir, fetch>>

\* idx.serialize(fout)
Serialize ==
    /\ fout' = pickle_dump(idx)
    /\ call' = [op |-> "serialize"]
    /\ UNCHANGED <<idx, added, cmp, pending, files, indice_dir, fetch>>

\* idx = cls.deserialize(fin), reading what a serialize wrote; cls is any
\* index class, the class of the index that wrote fin or another
Deserialize(cls) ==
    /\ fout # <<>>
    /\ idx' = index_deserialize(cls, fout)
    /\ added' = Entries(idx')
    /\ call' = [op |-> "deserialize", cls |-> cls, raised |-> "none"]
    /\ UNCHANGED <<fout, cmp, pending, files, indice_dir, fetch>>

Next ==
    \/ \E vals \in Batches : Add(vals)
    \/ \E hash \in QueryHashes : Query(hash)
    \/ Serialize
    \/ \E cls \in IndexClasses : Deserialize(cls)

Spec == Init /\ [][Next]_vars

----------------------------------------------------------------------------
(* Properties of the indices, checked under Spec *)

Count(e, seq) == Cardinality({n \in DOMAIN seq : seq[n] = e})

Range(seq) == {seq[n] : n \in DOMAIN seq}

\* C1: round trip: deserialize(serialize(idx)) is an index of the same class
\* that answers every query as idx does, for every reachable idx of either
\* variant, the empty one included; serialize leaves idx unchanged, and a
\* deserialize that follows it yields an index answering every query alike.
C1_RoundTrip ==
    /\ [](LET loaded == pickle_load(pickle_dump(idx))
          IN  /\ loaded.cls = idx.cls
              /\ \A h \in QueryHashes : index_query(loaded, h) = index_query(idx, h))
    /\ [][call'.op = "serialize" => idx' = idx]_vars
    /\ [][(call.op = "serialize" /\ call'.op = "deserialize") =>
             \A h \in QueryHashes : index_query(idx', h) = index_query(idx, h)]_vars

\* an index holding two entries was read back from its serialized form
C1_Witness ==
    /\ call.op = "deserialize"
    /\ Len(Entries(idx)) = 2
    /\ fout = pickle_dump(idx)

C3_ExactDuplicatesAccumulate ==
    (idx.cls = "TrivialSignalTypeIndex" /\ call.op = "query") =>
        LET under == SelectSeq(added, LAMBDA e : e[1] = call.hash)
        IN  call.ret = [n \in 1..Len(under) |-> [distance |-> 0, metadata |-> under[n][2]]]

\* a hash added with two different payloads was queried and both came back
C3_Witness ==
    /\ idx.cls = "TrivialSignalTypeIndex"
    /\ call.op = "query"
    /\ Len(call.ret) = 2
    /\ call.ret[1].metadata # call.ret[2].metadata

\* C4: linear-scan index: query(q) returns one match for every stored pair
\* the comparator matches against q and none for the others, with the
\* comparator's distance and the pair's payload, in insertion order.
C4_LinearScanQuery ==
    (idx.cls = "LevenshteinLinearSearch" /\ call.op = "query") =>
        LET matched == SelectSeq(idx.state,
                LAMBDA e : SIGNAL_TYPE_compare_hash(idx.cls, e[1], call.hash).match)
        IN  call.ret =
                [n \in 1..Len(matched) |->
                    [distance |-> SIGNAL_TYPE_compare_hash(
                                      idx.cls, matched[n][1], call.hash).distance,
                     metadata |-> matched[n][2]]]

\* of two stored texts one matched the query at distance 1 and then one at
\* distance 0, in that order
C4_Witness ==
    /\ idx.cls = "LevenshteinLinearSearch"
    /\ call.op = "query"
    /\ Len(idx.state) = 2
    /\ Len(call.ret) = 2
    /\ call.ret[1].distance = 1
    /\ call.ret[2].distance = 0

----------------------------------------------------------------------------
(* One compare_hash call: the inputs are drawn, then the comparator runs *)

InitCompare ==
    /\ \E st \in SignalTypes : \E h1 \in HashesOf(st), h2 \in HashesOf(st) :
           cmp = [signal_type |-> st, hash1 |-> h1, hash2 |-> h2, pc |-> "call"]
    /\ idx = NoIndex
    /\ fout = <<>>
    /\ added = <<>>
    /\ call = NoCall
    /\ pending = NoAdd
    /\ files = NoFiles
    /\ indice_dir = CliIndexDir
    /\ fetch = NoFetch

CompareHash ==
    /\ cmp.pc = "call"
    /\ cmp' = [signal_type |-> cmp.signal_type,
               hash1 |-> cmp.hash1,
               hash2 |-> cmp.hash2,
               pc |-> "done",
               res |-> compare_hash(cmp.signal_type, cmp.hash1, cmp.hash2),
               rev |-> compare_hash(cmp.signal_type, cmp.hash2, cmp.hash1)]
    /\ UNCHANGED <<idx, fout, added, call, pending, files, indice_dir, fetch>>

NextCompare == CompareHash

SpecCompare == InitCompare /\ [][NextCompare]_vars

----------------------------------------------------------------------------
(* Properties of the comparators, checked under SpecCompare *)

Compared == cmp.pc = "done"

\* C5: exact-string equality comparator: matched = (hash1 == hash2), and
\* distance is 0 when matched, 1 when not matched.
C5_ExactEqualityDistance ==
    (Compared /\ cmp.signal_type \in ExactTypes) =>
        /\ cmp.res.match = (cmp.hash1 = cmp.hash2)
        /\ cmp.res.distance = (IF cmp.res.match THEN 0 ELSE 1)

\* C6: for exact types distance == 0 implies matched == true, and the
\* distance of every comparator's result is non-negative.
C6_ZeroDistanceImpliesMatch ==
    Compared =>
        /\ cmp.res.distance >= 0
        /\ (cmp.signal_type \in ExactTypes /\ cmp.res.distance = 0) => cmp.res.match

\* C7: for fuzzy types matched is true iff the reported distance is at most
\* the type's threshold (31 for PDQ, 30 for TLSH, floor(len(hash1) * 0.05)
\* for raw text), the raw-text length pre-check included.
C7_FuzzyMatchIffWithinThreshold ==
    (Compared /\ cmp.signal_type \in FuzzyTypes) =>
        (cmp.res.match <=> cmp.res.distance <= threshold_of(cmp.signal_type, cmp.hash1))

\* C8: symmetry: compare(a, b) == compare(b, a), in matched and in distance,
\* for every signal type.
C8_Symmetry == Compared => cmp.res = cmp.rev

\* C9: reflexivity of the bit-distance comparators (PDQ, TLSH): compare(h, h)
\* is matched at distance 0 for every well-formed hash h.
C9_BitDistanceReflexive ==
    (Compared /\ cmp.signal_type \in BitDistanceTypes /\ cmp.hash1 = cmp.hash2) =>
        (cmp.res.match /\ cmp.res.distance = 0)

\* a hash with bits set was compared with itself by a bit-distance comparator
C9_Witness ==
    /\ Compared
    /\ cmp.signal_type \in BitDistanceTypes
    /\ cmp.hash1 = cmp.hash2
    /\ cmp.hash1 \in {PdqHash(7, "7"), TlshHash("1", "1", 4)}

\* C10: raw-text comparator: when abs(len(hash1) - len(hash2)) exceeds
\* floor(len(hash1) * 0.05) the result is no-match; otherwise the distance is
\* the Levenshtein distance and matched = (distance <= floor(len(hash1) * 0.05)).
C10_EditDistanceComparator ==
    (Compared /\ cmp.signal_type = "RawTextSignal") =>
        LET floor5pct == Len(cmp.hash1) \div 20
        IN  IF Abs(Len(cmp.hash1) - Len(cmp.hash2)) > floor5pct
            THEN ~cmp.res.match
            ELSE /\ cmp.res.distance = Levenshtein_distance(cmp.hash1, cmp.hash2)
                 /\ cmp.res.match = (cmp.res.distance <= floor5pct)

\* two texts of different length passed the pre-check and matched at distance 1
C10_Witness ==
    /\ Compared
    /\ cmp.signal_type = "RawTextSignal"
    /\ Len(cmp.hash1) # Len(cmp.hash2)
    /\ cmp.res = [match |-> TRUE, distance |-> 1]

----------------------------------------------------------------------------
(* Further properties of the indices, checked under Spec *)

\* C11: normalization is the same at add time and at query time: after
\* add(vals) a query with the very text of an added entry, as it was handed
\* to add, returns that entry's payload.
C11_SameNormalizationAtAddAndQuery ==
    [][\A vals \in Batches :
          Add(vals) =>
              \A n \in DOMAIN vals :
                  \E m \in Range(index_query(idx', vals[n][1])) :
                      m.metadata = vals[n][2]]_vars

\* C13: add of an empty batch is a no-op: the index, the entries it holds
\* and the answer to every query are the same before and after.
C13_AddEmptyIsNoOp ==
    [][(call'.op = "add" /\ call'.n = 0) =>
          /\ idx' = idx
          /\ Entries(idx') = Entries(idx)
          /\ \A h \in QueryHashes : index_query(idx', h) = index_query(idx, h)]_vars

\* an empty batch was added to a linear-scan index holding two entries
C13_Witness ==
    /\ call.op = "add"
    /\ call.n = 0
    /\ idx.cls = "LevenshteinLinearSearch"
    /\ Len(Entries(idx)) = 2

\* C14: a query of an empty index of either variant, and a query of an
\* exact-match index for a key it does not hold, returns the empty list, and
\* the exact-match index holds no entry for that key afterwards.
C14_QueryEmptyOrAbsent ==
    /\ []((/\ call.op = "query"
           /\ \/ Entries(idx) = <<>>
              \/ idx.cls = "TrivialSignalTypeIndex" /\ ~dict_has(idx.state, call.hash))
          => call.ret = <<>>)
    /\ [][(/\ call'.op = "query"
           /\ idx.cls = "TrivialSignalTypeIndex"
           /\ ~dict_has(idx.state, call'.hash))
          => ~dict_has(idx'.state, call'.hash)]_vars

\* an exact-match index holding entries was queried for a key it does not hold
C14_Witness ==
    /\ call.op = "query"
    /\ idx.cls = "TrivialSignalTypeIndex"
    /\ Len(idx.state) > 0
    /\ ~dict_has(idx.state, call.hash)
    /\ call.ret = <<>>

\* C15: build(entries) is equivalent to a new empty index followed by
\* add(entries): same class, same entries, same answer to every query, for
\* both variants; checked on the built index and on the first add to an
\* index constructed empty.
C15_BuildIsNewThenAdd ==
    /\ [](call.op = "build" =>
            LET made == index_add(index_init(call.cls), call.vals)
            IN  /\ idx.cls = made.cls
                /\ Entries(idx) = Entries(made)
                /\ \A h \in QueryHashes : index_query(idx, h) = index_query(made, h))
    /\ [][\A vals \in Batches :
             (call.op = "none" /\ Add(vals)) => idx' = index_build(idx.cls, vals)]_vars

\* a raw-text index was built from two entries, one of them not normalized
C15_Witness ==
    /\ call.op = "build"
    /\ call.cls = "LevenshteinLinearSearch"
    /\ Len(call.vals) = 2
    /\ \E n \in DOMAIN call.vals : call.vals[n][1] = TextUpper
    /\ Len(Entries(idx)) = 2

\* C16: query is read-only: it leaves the index and the entries it holds as
\* they were, so every query is answered after it as before it, and the
\* answer it returned is the answer the index gives to that query.
C16_QueryReadOnly ==
    /\ [][call'.op = "query" =>
             /\ idx' = idx
             /\ Entries(idx') = Entries(idx)
             /\ \A h \in QueryHashes : index_query(idx', h) = index_query(idx, h)]_vars
    /\ [](call.op = "query" => call.ret = index_query(idx, call.hash))

\* a query of an exact-match index holding an entry missed
C16_Witness ==
    /\ call.op = "query"
    /\ idx.cls = "TrivialSignalTypeIndex"
    /\ Len(Entries(idx)) > 0
    /\ call.ret = <<>>

\* C19: cls.deserialize either fails with CorruptIndexError or returns an
\* index of the class cls it was called on.
C19_DeserializeChecksClass ==
    call.op = "deserialize" =>
        \/ call.raised = "CorruptIndexError"
        \/ call.raised = "none" /\ idx.cls = call.cls

----------------------------------------------------------------------------
(* The raw-text index on the example text: entries are added one at a time *)
(* to a LevenshteinLinearSearch constructed empty, and queried             *)

\* the edit distances between the example texts, evaluated once
ExampleDistance ==
    [p \in ExampleTexts \X ExampleTexts |-> Levenshtein_distance(p[1], p[2])] @@ <<>>

InitExample ==
    /\ idx = LevenshteinLinearSearch_init
    /\ fout = <<>>
    /\ added = <<>>
    /\ call = NoCall
    /\ cmp = NoCompare
    /\ pending = NoAdd
    /\ files = NoFiles
    /\ indice_dir = CliIndexDir
    /\ fetch = NoFetch

\* idx.add([(s, payload)])
AddExample == \E s \in ExampleTexts, payload \in Payloads : Add(<<<<s, payload>>>>)

\* idx.query(s)
QueryExample == \E s \in ExampleTexts : Query(s)

NextExample == AddExample \/ QueryExample

SpecExample == InitExample /\ [][NextExample]_vars

\* C12: after a single string s is added to the linear-scan edit-distance
\* index (43 characters, threshold 2), a query with the same string returns
\* exactly one match, at distance 0, and a query with a string 3 or more
\* edits away from s returns no match.
C12_LinearScanOnExample ==
    [][\A s \in ExampleTexts, payload \in Payloads :
          (idx.state = <<>> /\ Add(<<<<s, payload>>>>)) =>
              /\ index_query(idx', s) = <<IndexMatch(0, payload)>>
              /\ \A q \in ExampleTexts :
                     ExampleDistance[<<s, q>>] >= 3 => index_query(idx', q) = <<>>]_vars

----------------------------------------------------------------------------
(* An add call running while another thread queries the same index.  The   *)
(* code holds no lock: TrivialSignalTypeIndex.add is a for loop over vals, *)
(* and LevenshteinLinearSearch.add hands list.extend a generator, so the   *)
(* list grows entry by entry; a query of the other thread runs between two *)
(* entries.                                                                *)

InitConcurrent ==
    /\ idx \in {TrivialSignalTypeIndex_init, LevenshteinLinearSearch_init}
    /\ fout = <<>>
    /\ added = <<>>
    /\ call = NoCall
    /\ cmp = NoCompare
    /\ pending = NoAdd
    /\ files = NoFiles
    /\ indice_dir = CliIndexDir
    /\ fetch = NoFetch

\* the writer enters idx.add(vals)
BeginAdd(vals) ==
    /\ ~pending.active
    /\ Len(Entries(idx)) + Len(vals) <= MaxEntries
    /\ pending' = [active |-> TRUE, vals |-> vals, k |-> 0, base |-> idx]
    /\ UNCHANGED <<idx, fout, added, call, cmp, files, indice_dir, fetch>>

\* one iteration of the loop of add: the next entry of vals goes in
AddStep ==
    /\ pending.active
    /\ pending.k < Len(pending.vals)
    /\ idx' = index_add(idx, <<pending.vals[pending.k + 1]>>)
    /\ added' = added \o base_add_vals(idx.cls, <<pending.vals[pending.k + 1]>>)
    /\ pending' = [pending EXCEPT !.k = pending.k + 1]
    /\ UNCHANGED <<fout, call, cmp, files, indice_dir, fetch>>

\* the loop is over and add returns
EndAdd ==
    /\ pending.active
    /\ pending.k = Len(pending.vals)
    /\ pending' = NoAdd
    /\ UNCHANGED <<idx, fout, added, call, cmp, files, indice_dir, fetch>>

\* the reader calls idx.query(hash); during records the add in progress
ConcurrentQuery(hash) ==
    /\ call' = [op |-> "query", hash |-> hash, ret |-> index_query(idx, hash),
                during |-> IF pending.active
                           THEN [active |-> TRUE, vals |-> pending.vals, base |-> pending.base]
                           ELSE NoAdd]
    /\ idx' = index_after_query(idx, hash)
    /\ UNCHANGED <<fout, added, cmp, pending, files, indice_dir, fetch>>

NextConcurrent ==
    \/ \E vals \in Batches : BeginAdd(vals)
    \/ AddStep
    \/ EndAdd
    \/ \E hash \in QueryHashes : ConcurrentQuery(hash)

SpecConcurrent == InitConcurrent /\ [][NextConcurrent]_vars

\* C17: a query that runs while an add of a batch is in progress reflects
\* none of the batch or all of it: its answer is the answer of the index as
\* it was before the add or as it is after the whole add.
C17_NoHalfWrittenBatch ==
    (call.op = "query" /\ call.during.active) =>
        \/ call.ret = index_query(call.during.base, call.hash)
        \/ call.ret = index_query(index_add(call.during.base, call.during.vals), call.hash)

----------------------------------------------------------------------------
(* compare_hash on hashes that may be malformed for the signal type *)

\* SignalType.validate_hash: return True
validate_hash(signal_type, hash1) == TRUE

IsHex(h) == \A i \in DOMAIN h : \E j \in DOMAIN HexDigits : HexDigits[j] = h[i]

MD5_HEXDIGEST_LENGTH == 32

\* the shape of the hashes of a signal type: PDQ is BITS_IN_PDQ bits in hex,
\* TLSH is EXPECT_TLSH_HASH_LENGTH characters, UrlMD5Signal.hash_from_str is
\* an md5 hexdigest; URLs and raw text are any string
WellFormedHash(signal_type, h) ==
    CASE signal_type = "PdqSignal" -> Len(h) = BITS_IN_PDQ \div 4 /\ IsHex(h)
      [] signal_type = "TLSHSignal" -> Len(h) = EXPECT_TLSH_HASH_LENGTH
      [] signal_type = "UrlMD5Signal" -> Len(h) = MD5_HEXDIGEST_LENGTH /\ IsHex(h)
      [] OTHER -> TRUE

\* pdq_utils.simple_distance rejects a hash that is not 256 bits of hex
simple_distance_raises(hash1, hash2) ==
    IF WellFormedHash("PdqSignal", hash1) /\ WellFormedHash("PdqSignal", hash2)
    THEN "none" ELSE "MalformedHashError"

\* tlsh.diffxlen raises ValueError for an argument that is not a TLSH hash
tlsh_diffxlen_raises(hash1, hash2) ==
    IF WellFormedHash("TLSHSignal", hash1) /\ WellFormedHash("TLSHSignal", hash2)
    THEN "none" ELSE "ValueError"

\* cls.compare_hash(hash1, hash2): the exception that leaves the call, or the
\* result it returns; no compare_hash calls validate_hash or catches anything
compare_hash_call(signal_type, hash1, hash2) ==
    LET raised == CASE signal_type = "PdqSignal" -> simple_distance_raises(hash1, hash2)
                    [] signal_type = "TLSHSignal" -> tlsh_diffxlen_raises(hash1, hash2)
                    [] OTHER -> "none"
    IN  IF raised # "none" THEN [raised |-> raised]
        ELSE [raised |-> "none", ret |-> compare_hash(signal_type, hash1, hash2)]

Md5Hash(d) == [i \in 1..MD5_HEXDIGEST_LENGTH |-> d]

\* per signal type: well-formed hashes and, for the fixed-width types, one
\* hash a character short and one with a character that is no hex digit
CheckedHashes(signal_type) ==
    CASE signal_type = "PdqSignal" ->
             {PdqHash(0, "0"), PdqHash(0, "1"),
              SubSeq(PdqHash(0, "0"), 1, (BITS_IN_PDQ \div 4) - 1),
              [PdqHash(0, "0") EXCEPT ![1] = "g"]}
      [] signal_type = "TLSHSignal" ->
             {TlshHash("0", "0", 0), TlshHash("1", "0", 0),
              SubSeq(TlshHash("0", "0", 0), 1, EXPECT_TLSH_HASH_LENGTH - 1)}
      [] signal_type = "UrlMD5Signal" ->
             {Md5Hash("a"), Md5Hash("b"),
              SubSeq(Md5Hash("a"), 1, MD5_HEXDIGEST_LENGTH - 1),
              [Md5Hash("a") EXCEPT ![1] = "g"]}
      [] OTHER -> {<<>>, <<"a">>, <<"b">>, <<"a", "b">>}

InitChecked ==
    /\ \E st \in SignalTypes : \E h1 \in CheckedHashes(st), h2 \in CheckedHashes(st) :
           cmp = [signal_type |-> st, hash1 |-> h1, hash2 |-> h2, pc |-> "call"]
    /\ idx = NoIndex
    /\ fout = <<>>
    /\ added = <<>>
    /\ call = NoCall
    /\ pending = NoAdd
    /\ files = NoFiles
    /\ indice_dir = CliIndexDir
    /\ fetch = NoFetch

CompareChecked ==
    /\ cmp.pc = "call"
    /\ cmp' = [signal_type |-> cmp.signal_type,
               hash1 |-> cmp.hash1,
               hash2 |-> cmp.hash2,
               pc |-> "done",
               valid |-> validate_hash(cmp.signal_type, cmp.hash1)
                           /\ validate_hash(cmp.signal_type, cmp.hash2),
               out |-> compare_hash_call(cmp.signal_type, cmp.hash1, cmp.hash2)]
    /\ UNCHANGED <<idx, fout, added, call, pending, files, indice_dir, fetch>>

NextChecked == CompareChecked

SpecChecked == InitChecked /\ [][NextChecked]_vars

\* C18: compare_hash on a malformed hash (wrong length or encoding for a
\* fixed-width type) fails with MalformedHashError and returns no result.
C18_MalformedHashRejected ==
    (/\ cmp.pc = "done"
     /\ \/ ~WellFormedHash(cmp.signal_type, cmp.hash1)
        \/ ~WellFormedHash(cmp.signal_type, cmp.hash2))
    => cmp.out.raised = "MalformedHashError"

----------------------------------------------------------------------------
(* CliIndexStore  (cli_state.py:147-190): one file per signal type in the  *)
(* index directory, written by store_index and read by load_index          *)

\* signal_type.get_index_cls(): TrivialSignalTypeIndex unless overridden;
\* RawTextSignal returns LevenshteinLinearSearch
get_index_cls(signal_type) ==
    IF signal_type = "RawTextSignal" THEN "LevenshteinLinearSearch"
    ELSE "TrivialSignalTypeIndex"

\* store_index(signal_type, index): the assert on the class of index, then
\* path.open("wb") and index.serialize(fout).  debug is __debug__: the assert
\* statement is compiled away when the interpreter runs with -O.
store_index_raises(signal_type, index, debug) ==
    IF debug /\ get_index_cls(signal_type) # index.cls THEN "AssertionError" ELSE "none"

Mut_store_index_files(fs, signal_type, index, debug) ==
    IF store_index_raises(signal_type, index, debug) # "none" THEN fs
    ELSE [st \in StoreTypes |-> [exists |-> TRUE, bytes |-> pickle_dump(index)]]

store_index_files(fs, signal_type, index, debug) ==
    IF store_index_raises(signal_type, index, debug) # "none" THEN fs
    ELSE [fs EXCEPT ![signal_type] = [exists |-> TRUE, bytes |-> pickle_dump(index)]]

\* load_index(signal_type): None when the file does not exist, otherwise
\* signal_type.get_index_cls().deserialize(fin)
load_index(fs, signal_type) ==
    IF ~fs[signal_type].exists THEN NoIndex
    ELSE index_deserialize(get_index_cls(signal_type), fs[signal_type].bytes)

\* SignalType.get_name(): the class name without "Signal", in
\* lower_with_underscore style
get_name(signal_type) ==
    CASE signal_type = "URLSignal" -> <<"u", "r", "l">>
      [] signal_type = "RawTextSignal" -> <<"r", "a", "w", "_", "t", "e", "x", "t">>

FILE_EXTENSION == <<".", "i", "n", "d", "e", "x">>

\* str(dir / name): Path(".") / name is name, any other dir is joined by "/"
path_join(dir, name) == IF dir = <<>> THEN name ELSE dir \o <<"/">> \o name

\* _index_file: self.dir / f"{signal_type.get_name()}{self.FILE_EXTENSION}"
index_file(dir, signal_type) ==
    path_join(dir, get_name(signal_type) \o FILE_EXTENSION)

\* self.dir.glob(f"*{self.FILE_EXTENSION}"): the signal types whose file is
\* in the directory (each file is found under the path index_file gives it)
glob_index_files(fs) == {st \in StoreTypes : fs[st].exists}

\* get_available: str(f)[-len(self.FILE_EXTENSION)] for each file f of the
\* glob, in the order order lists them: the one character at that position
get_available(fs, dir, order) ==
    [n \in 1..Len(order) |->
        LET f == index_file(dir, order[n])
        IN  <<f[Len(f) - Len(FILE_EXTENSION) + 1]>>]

\* clear(only_types): unlinks each file of the glob when only_types is None
\* or str(file)[: -len(self.FILE_EXTENSION)] is the name of one of only_types
clear_files(fs, dir, only_types) ==
    LET only_names == {get_name(st) : st \in only_types.types}
        unlinked(st) ==
            LET f == index_file(dir, st)
            IN  \/ ~only_types.given
                \/ SubSeq(f, 1, Len(f) - Len(FILE_EXTENSION)) \in only_names
    IN  [st \in StoreTypes |->
            IF fs[st].exists /\ unlinked(st) THEN NoFile ELSE fs[st]]

\* the directories a CliIndexStore is constructed on: Path(".") and the
\* absolute directory of the CLI
IndexDirs == {<<>>, CliIndexDir}

\* the only_types argument of clear: None or a list of signal types
OnlyTypes ==
    {[given |-> FALSE, types |-> {}]}
        \cup {[given |-> TRUE, types |-> T] : T \in SUBSET StoreTypes}

\* the orders in which a set of files can come out of glob
Orders(S) ==
    {o \in [1..Cardinality(S) -> S] : \A a, b \in 1..Cardinality(S) : o[a] = o[b] => a = b}

\* the batches added to the index the caller stores: entries of one payload
StoreBatches == {vals \in Batches : \A n \in DOMAIN vals : vals[n][2] = "p1"}

\* a store on either directory, and an index constructed empty
InitStore ==
    /\ idx \in {TrivialSignalTypeIndex_init, LevenshteinLinearSearch_init}
    /\ fout = <<>>
    /\ added = <<>>
    /\ call = NoCall
    /\ cmp = NoCompare
    /\ pending = NoAdd
    /\ files = NoFiles
    /\ indice_dir \in IndexDirs
    /\ fetch = NoFetch

\* store.store_index(signal_type, idx)
StoreIndex(signal_type, debug) ==
    /\ files' = store_index_files(files, signal_type, idx, debug)
    /\ call' = [op |-> "store_index", signal_type |-> signal_type,
                raised |-> store_index_raises(signal_type, idx, debug)]
    /\ UNCHANGED <<idx, fout, added, cmp, pending, indice_dir, fetch>>

\* store.load_index(signal_type)
LoadIndex(signal_type) ==
    /\ call' = [op |-> "load_index", signal_type |-> signal_type,
                ret |-> load_index(files, signal_type)]
    /\ UNCHANGED <<idx, fout, added, cmp, pending, files, indice_dir, fetch>>

\* store.clear(only_types)
Clear(only_types) ==
    /\ files' = clear_files(files, indice_dir, only_types)
    /\ call' = [op |-> "clear", only_types |-> only_types]
    /\ UNCHANGED <<idx, fout, added, cmp, pending, indice_dir, fetch>>

\* store.get_available()
GetAvailable ==
    /\ \E order \in Orders(glob_index_files(files)) :
           call' = [op |-> "get_available",
                    ret |-> get_available(files, indice_dir, order)]
    /\ UNCHANGED <<idx, fout, added, cmp, pending, files, indice_dir, fetch>>

NextStore ==
    \/ \E vals \in StoreBatches : Add(vals)
    \/ \E signal_type \in StoreTypes, debug \in BOOLEAN : StoreIndex(signal_type, debug)
    \/ \E signal_type \in StoreTypes : LoadIndex(signal_type)
    \/ \E only_types \in OnlyTypes : Clear(only_types)
    \/ GetAvailable

SpecStore == InitStore /\ [][NextStore]_vars

\* C20: store_index of an index whose class is not the index class of the
\* signal type fails with IndexClassMismatchError and leaves the files of
\* the store as they were.
C20_StoreRejectsClassMismatch ==
    [][(/\ call'.op = "store_index"
        /\ get_index_cls(call'.signal_type) # idx.cls)
       => (call'.raised = "IndexClassMismatchError" /\ files' = files)]_vars

\* an index equivalent to another: same class, same entries, same answers
Equivalent(a, b) ==
    /\ a.cls = b.cls
    /\ Entries(a) = Entries(b)
    /\ \A h \in QueryHashes : index_query(a, h) = index_query(b, h)

\* C21: one blob per signal type: after a store_index for T that succeeded,
\* load_index(T) returns an index equivalent to the one stored and
\* load_index(U) returns what it returned before for every other U; a step
\* that is neither a store_index nor a clear changes no load_index; a signal
\* type with no file loads None; and the files of two signal types have
\* different names, the name of the type followed by the extension.
C21_OneBlobPerSignalType ==
    /\ [][\A st \in StoreTypes :
             IF call'.op = "store_index" /\ call'.raised = "none"
                    /\ call'.signal_type = st
             THEN Equivalent(load_index(files', st), idx)
             ELSE call'.op \notin {"clear", "store_index"} =>
                      load_index(files', st) = load_index(files, st)]_vars
    /\ [][\A st \in StoreTypes :
             (call'.op = "store_index" /\ call'.signal_type # st) =>
                 load_index(files', st) = load_index(files, st)]_vars
    /\ [](\A st \in StoreTypes : ~files[st].exists => load_index(files, st) = NoIndex)
    /\ [](call.op = "load_index" => call.ret = load_index(files, call.signal_type))
    /\ [](\A st, su \in StoreTypes :
              /\ LET f == index_file(indice_dir, st)
                     n == Len(get_name(st)) + Len(FILE_EXTENSION)
                 IN  SubSeq(f, Len(f) - n + 1, Len(f)) = get_name(st) \o FILE_EXTENSION
              /\ st # su => index_file(indice_dir, st) # index_file(indice_dir, su))

\* both signal types have a stored index, the two differ, and one was loaded
C21_Witness ==
    /\ call.op = "load_index"
    /\ \A st \in StoreTypes : files[st].exists
    /\ files["URLSignal"].bytes # files["RawTextSignal"].bytes
    /\ Len(Entries(call.ret)) = 2

\* C30: clear(only_types) removes exactly the index files of the given
\* signal types, clear() removes every index file, and get_available lists
\* the names of exactly the signal types that have a stored index.
C30_ClearAndGetAvailable ==
    /\ [][call'.op = "clear" =>
             \A st \in StoreTypes :
                 files'[st] = IF ~call'.only_types.given \/ st \in call'.only_types.types
                              THEN NoFile ELSE files[st]]_vars
    /\ [](call.op = "get_available" =>
            /\ Len(call.ret) = Cardinality(glob_index_files(files))
            /\ Range(call.ret) = {get_name(st) : st \in glob_index_files(files)})

----------------------------------------------------------------------------
(* The exact-match index against a linear scan with the comparator of the  *)
(* exact-match signal types, checked under Spec                            *)

\* the matches a scan of entries with SimpleSignalType.compare_hash collects,
\* as the loop of TrivialLinearSearchIndex.query does
RECURSIVE SimpleLinearScan(_, _)
SimpleLinearScan(entries, query_hash) ==
    IF entries = <<>> THEN <<>>
    ELSE LET res == SimpleSignalType_compare_hash(Head(entries)[1], query_hash)
             rest == SimpleLinearScan(Tail(entries), query_hash)
         IN  IF res.match THEN <<IndexMatch(res.distance, Head(entries)[2])>> \o rest
             ELSE rest

\* C29: the exact-match index returns, for every entry set and query hash,
\* the payloads and distances a linear scan of its entries with
\* SimpleSignalType.compare_hash collects.
C29_ExactIndexAgreesWithLinearScan ==
    (call.op = "query" /\ idx.cls = "TrivialSignalTypeIndex") =>
        LET scan == SimpleLinearScan(Entries(idx), call.hash)
        IN  \A m \in Range(scan) \cup Range(call.ret) :
                Count(m, call.ret) = Count(m, scan)

----------------------------------------------------------------------------
(* FetchCommand  (cli/fetch_cmd.py:27-173).  execute runs every fetcher of *)
(* the settings, execute_for_fetcher every collaboration of the fetcher,   *)
(* and execute_for_collab fetches one collaboration.  execute_for_collab   *)
(* binds store to None (line 137) and hands it to                          *)
(* _verify_store_and_checkpoint (line 139), whose first use of store       *)
(* (line 164 or 167) raises AttributeError; lines 141-158, the check of    *)
(* the checkpoint, the fetch loop and the flush, are not reached.          *)

\* FBThreatExchangeCheckpoint.is_stale: stale after 30 days without a fetch
STALE_AFTER_SEC == 3600 * 24 * 30

\* time.time() of the run, and the last_fetch_time of the checkpoints the
\* state files hold: one older than 30 days and one of this instant
Now == STALE_AFTER_SEC + 1
StoredStates ==
    {[exists |-> TRUE, checkpoint |-> [last_fetch_time |-> 0]],
     [exists |-> TRUE, checkpoint |-> [last_fetch_time |-> Now]]}
ClearedState == [exists |-> FALSE]

is_stale(checkpoint, now) == now - checkpoint.last_fetch_time > STALE_AFTER_SEC

\* FetchCheckpointBase.stale: return False; FBThreatExchangeCheckpoint has no
\* stale of its own (its method is named is_stale)
stale(checkpoint) == FALSE

\* a method call on store: None has no attribute clear, get_checkpoint, ...
store_call_raises(store) == IF store = "None" THEN "AttributeError" ELSE "none"

\* _verify_store_and_checkpoint(store, collab) on the stored state of the
\* collaboration: what it raises, the checkpoint it returns (NoCheckpoint for
\* None) and the stored state afterwards
NoCheckpoint == [last_fetch_time |-> -1]
verify_store_and_checkpoint(clean, store, stored) ==
    IF store_call_raises(store) # "none"
    THEN [raised |-> store_call_raises(store), ret |-> NoCheckpoint, stored |-> stored]
    ELSE IF clean
         THEN [raised |-> "none", ret |-> NoCheckpoint, stored |-> ClearedState]
         ELSE IF stale(stored.checkpoint)
              THEN [raised |-> "none", ret |-> NoCheckpoint, stored |-> ClearedState]
              ELSE [raised |-> "none", ret |-> stored.checkpoint, stored |-> stored]

\* execute_for_collab up to the call of line 139: store = None
execute_for_collab(clean, stored) == verify_store_and_checkpoint(clean, "None", stored)

Mut_execute_all_succeeded(all_succeeded, succeeded) == succeeded

\* execute, line 107: all_succeeded = all_succeeded and succeeded
execute_all_succeeded(all_succeeded, succeeded) == all_succeeded /\ succeeded

\* execute, line 108: any_succeded = any_succeded or any_succeded
execute_any_succeded(any_succeded, succeeded) == any_succeded \/ any_succeded

\* the settings: for each fetcher the stored states of its collaborations
FetchSettings ==
    UNION {[1..nf -> UNION {[1..nc -> StoredStates] : nc \in 0..MaxCollabs}] :
               nf \in 0..MaxFetchers}

\* FetchCommand(clean, ..., skip_index_rebuild).execute(settings) is called
InitFetch ==
    /\ \E settings \in FetchSettings, clean \in BOOLEAN, skip_index_rebuild \in BOOLEAN :
           fetch = [pc |-> IF Len(settings) = 0 THEN "rebuild" ELSE "collabs",
                    clean |-> clean,
                    skip_index_rebuild |-> skip_index_rebuild,
                    stored |-> settings,
                    f |-> 1,
                    c |-> 1,
                    success |-> TRUE,
                    all_succeeded |-> TRUE,
                    any_succeded |-> FALSE,
                    results |-> <<>>,
                    attempted |-> <<>>,
                    verified |-> <<>>,
                    rebuilt |-> FALSE,
                    raised |-> "none",
                    returncode |-> 0]
    /\ idx = NoIndex
    /\ fout = <<>>
    /\ added = <<>>
    /\ call = NoCall
    /\ cmp = NoCompare
    /\ pending = NoAdd
    /\ files = NoFiles
    /\ indice_dir = CliIndexDir

\* execute_for_fetcher, lines 121-128: one collaboration of the fetcher;
\* an exception of execute_for_collab is caught and success becomes False
ExecuteForCollab ==
    /\ fetch.pc = "collabs"
    /\ fetch.c <= Len(fetch.stored[fetch.f])
    /\ LET v == execute_for_collab(fetch.clean, fetch.stored[fetch.f][fetch.c])
       IN  fetch' = [fetch EXCEPT
                        !.stored[fetch.f][fetch.c] = v.stored,
                        !.success = IF v.raised # "none" THEN FALSE ELSE fetch.success,
                        !.attempted = Append(fetch.attempted, <<fetch.f, fetch.c>>),
                        !.verified = Append(fetch.verified, [raised |-> v.raised, ret |-> v.ret]),
                        !.c = fetch.c + 1]
    /\ UNCHANGED <<idx, fout, added, call, cmp, pending, files, indice_dir>>

\* execute_for_fetcher returns success; execute, lines 106-108
ReturnFromFetcher ==
    /\ fetch.pc = "collabs"
    /\ fetch.c > Len(fetch.stored[fetch.f])
    /\ fetch' = [fetch EXCEPT
                    !.results = Append(fetch.results, fetch.success),
                    !.all_succeeded = execute_all_succeeded(fetch.all_succeeded, fetch.success),
                    !.any_succeded = execute_any_succeded(fetch.any_succeded, fetch.success),
                    !.success = TRUE,
                    !.f = fetch.f + 1,
                    !.c = 1,
                    !.pc = IF fetch.f = Len(fetch.stored) THEN "rebuild" ELSE "collabs"]
    /\ UNCHANGED <<idx, fout, added, call, cmp, pending, files, indice_dir>>

\* execute, lines 110-115: the rebuild step, then CommandError(..., 3)
FinishExecute ==
    /\ fetch.pc = "rebuild"
    /\ fetch' = [fetch EXCEPT
                    !.rebuilt = fetch.any_succeded /\ ~fetch.skip_index_rebuild,
                    !.raised = IF ~fetch.all_succeeded THEN "CommandError" ELSE "none",
                    !.returncode = IF ~fetch.all_succeeded THEN 3 ELSE 0,
                    !.pc = "done"]
    /\ UNCHANGED <<idx, fout, added, call, cmp, pending, files, indice_dir>>

NextFetch == ExecuteForCollab \/ ReturnFromFetcher \/ FinishExecute

SpecFetch == InitFetch /\ [][NextFetch]_vars

\* the fetchers whose execute_for_fetcher has returned True
SucceededFetchers == {f \in DOMAIN fetch.results : fetch.results[f]}

\* the collaborations whose execute_for_collab raised
FailedCollabs ==
    {fetch.attempted[n] : n \in {m \in DOMAIN fetch.attempted : fetch.verified[m].raised # "none"}}

\* C22: when execute has run all the fetchers, the index rebuild step is
\* reached if at least one fetcher succeeded and skip_index_rebuild is
\* false, and it is not reached if skip_index_rebuild is true; it is never
\* reached before all the fetchers have run.
C22_RebuildAfterSuccessfulFetch ==
    /\ fetch.pc = "done" =>
           /\ (SucceededFetchers # {} /\ ~fetch.skip_index_rebuild) => fetch.rebuilt
           /\ fetch.skip_index_rebuild => ~fetch.rebuilt
    /\ fetch.pc \in {"collabs", "rebuild"} => ~fetch.rebuilt

\* C24: with --clean, execute_for_collab clears the stored state of the
\* collaboration and goes on without a checkpoint and without an error;
\* without --clean and with a stored checkpoint that is not stale, the
\* stored state is left alone and that checkpoint is the one used.
C24_CleanRestartsFromTheBeginning ==
    [][ExecuteForCollab =>
          LET before == fetch.stored[fetch.f][fetch.c]
              after  == fetch'.stored[fetch.f][fetch.c]
              v      == fetch'.verified[Len(fetch'.verified)]
          IN  /\ fetch.clean =>
                     /\ v.raised = "none"
                     /\ v.ret = NoCheckpoint
                     /\ after = ClearedState
              /\ (~fetch.clean /\ ~stale(before.checkpoint)) =>
                     /\ v.raised = "none"
                     /\ v.ret = before.checkpoint
                     /\ after = before]_vars

\* C25: without --clean, a stored FBThreatExchangeCheckpoint whose
\* last_fetch_time is more than 30 days before now makes execute_for_collab
\* delete the stored state of the collaboration and go on without a
\* checkpoint.
C25_StaleCheckpointRestartsFetch ==
    [][(ExecuteForCollab /\ ~fetch.clean
            /\ is_stale(fetch.stored[fetch.f][fetch.c].checkpoint, Now)) =>
          LET v == fetch'.verified[Len(fetch'.verified)]
          IN  /\ v.raised = "none"
              /\ v.ret = NoCheckpoint
              /\ fetch'.stored[fetch.f][fetch.c] = ClearedState]_vars

\* all the collaborations of all the fetchers of the settings, in the order
\* execute runs them
RECURSIVE CollabsFrom(_, _, _)
CollabsFrom(stored, f, c) ==
    IF f > Len(stored) THEN <<>>
    ELSE IF c > Len(stored[f]) THEN CollabsFrom(stored, f + 1, 1)
    ELSE <<(<<f, c>>)>> \o CollabsFrom(stored, f, c + 1)

\* C28: a collaboration whose fetch raises stops nothing: when execute ends
\* every collaboration of every fetcher has been attempted once, in order;
\* execute_for_fetcher has returned False for exactly the fetchers with a
\* collaboration that raised; and execute raises CommandError with code 3
\* exactly when some collaboration raised.
C28_FailureIsolation ==
    /\ \A f \in DOMAIN fetch.results :
           fetch.results[f] <=> ~(\E fc \in FailedCollabs : fc[1] = f)
    /\ fetch.pc = "done" =>
           /\ fetch.attempted = CollabsFrom(fetch.stored, 1, 1)
           /\ Len(fetch.results) = Len(fetch.stored)
           /\ (fetch.raised = "CommandError" /\ fetch.returncode = 3) <=> FailedCollabs # {}
           /\ fetch.raised = "none" <=> FailedCollabs = {}
    /\ fetch.pc \in {"collabs", "rebuild"} => fetch.raised = "none"

C28_Witness ==
    /\ fetch.pc = "done"
    /\ Len(fetch.stored) = 2
    /\ Len(fetch.stored[1]) = 2
    /\ Len(fetch.stored[2]) = 0
    /\ FailedCollabs = {<<1, 1>>, <<1, 2>>}
    /\ fetch.attempted = <<(<<1, 1>>), (<<1, 2>>)>>
    /\ fetch.results = <<FALSE, TRUE>>
    /\ fetch.raised = "CommandError"
    /\ fetch.returncode = 3

====
